---- MODULE Spec2Model ----
(***************************************************************************)
(* Model of the Telegram finance bot: bot.py (line parser, sign rule,      *)
(* handle_text, /start, day / month / year reports) on top of the row      *)
(* store of google_sheet_store.py.                                         *)
(*                                                                         *)
(* Text is a sequence of one-character strings, so that the regular        *)
(* expressions of bot.py are computed character by character.              *)
(***************************************************************************)
EXTENDS Integers, Sequences, FiniteSets, TLC

(***************************************************************************)
(* Characters                                                              *)
(***************************************************************************)
Digits == {"0", "1", "2", "3", "4", "5", "6", "7", "8", "9"}

LowerSeq ==
  <<"a", "b", "c", "d", "e", "f", "g", "h", "i", "j", "k", "l", "m",
    "n", "o", "p", "q", "r", "s", "t", "u", "v", "w", "x", "y", "z">>

UpperSeq ==
  <<"A", "B", "C", "D", "E", "F", "G", "H", "I", "J", "K", "L", "M",
    "N", "O", "P", "Q", "R", "S", "T", "U", "V", "W", "X", "Y", "Z">>

LowerLetters == {LowerSeq[i] : i \in 1..Len(LowerSeq)}
UpperLetters == {UpperSeq[i] : i \in 1..Len(UpperSeq)}

DigitVal(c) ==
  CASE c = "0" -> 0 [] c = "1" -> 1 [] c = "2" -> 2 [] c = "3" -> 3
    [] c = "4" -> 4 [] c = "5" -> 5 [] c = "6" -> 6 [] c = "7" -> 7
    [] c = "8" -> 8 [] c = "9" -> 9

\* str.upper(), one character
UpperChar(c) ==
  IF c \in LowerLetters
    THEN UpperSeq[CHOOSE i \in 1..Len(LowerSeq) : LowerSeq[i] = c]
    ELSE c

Upper(s) == [i \in 1..Len(s) |-> UpperChar(s[i])]

\* str.replace(",", "")
RemoveCommas(s) == SelectSeq(s, LAMBDA c : c # ",")

IsDigit(c) == c \in Digits
IsSpace(c) == c = " "
\* \w of the re module
IsWord(c) == c \in Digits \/ c \in UpperLetters \/ c \in LowerLetters \/ c = "_"

\* is the character at position p (1-based) a word character; none outside
WordAt(s, p) == p >= 1 /\ p <= Len(s) /\ IsWord(s[p])

\* \b at the gap in front of position p
WordBoundary(s, p) == WordAt(s, p - 1) # WordAt(s, p)

RECURSIVE SkipSpace(_, _)
\* \s* (greedy) from position p: the first position that holds no space
SkipSpace(s, p) ==
  IF p <= Len(s) /\ IsSpace(s[p]) THEN SkipSpace(s, p + 1) ELSE p

RECURSIVE SkipDigits(_, _)
\* \d* (greedy) from position p
SkipDigits(s, p) ==
  IF p <= Len(s) /\ IsDigit(s[p]) THEN SkipDigits(s, p + 1) ELSE p

RECURSIVE LStrip(_)
LStrip(s) == IF s # <<>> /\ IsSpace(Head(s)) THEN LStrip(Tail(s)) ELSE s

RECURSIVE RStrip(_)
RStrip(s) ==
  IF s # <<>> /\ IsSpace(s[Len(s)]) THEN RStrip(SubSeq(s, 1, Len(s) - 1)) ELSE s

\* str.strip()
Strip(s) == RStrip(LStrip(s))

RECURSIVE DigitsToInt(_, _)
\* the decimal value of the digit string s, continuing from acc
DigitsToInt(s, acc) ==
  IF s = <<>> THEN acc ELSE DigitsToInt(Tail(s), 10 * acc + DigitVal(Head(s)))

RECURSIVE Pow10(_)
Pow10(n) == IF n = 0 THEN 1 ELSE 10 * Pow10(n - 1)

(***************************************************************************)
(* _AMOUNT_RE = (?i)\b([+-]?)\s*(\d+(?:\.\d+)?)\s*([KM]?)\b                *)
(*                                                                         *)
(* A match is [ok, from, to, sign, num, unit]: it covers the positions     *)
(* from..to-1, sign is group 1 ("" when empty), num group 2, unit group 3. *)
(***************************************************************************)
NoMatch == [ok |-> FALSE]

AmountHit(s, from, to, sign, numFrom, numTo, unit) ==
  [ok |-> TRUE, from |-> from, to |-> to, sign |-> sign,
   num |-> SubSeq(s, numFrom, numTo - 1), unit |-> unit]

\* \s*([KM]?)\b from position p, q being the end of the spaces that follow p:
\* the alternatives in the order the backtracking matcher tries them
AmountTailAt(s, from, sign, numFrom, numTo, p, q) ==
  IF q <= Len(s) /\ UpperChar(s[q]) \in {"K", "M"} /\ WordBoundary(s, q + 1)
    THEN AmountHit(s, from, q + 1, sign, numFrom, numTo, UpperChar(s[q]))
  ELSE IF WordBoundary(s, q) THEN AmountHit(s, from, q, sign, numFrom, numTo, "")
  ELSE IF WordBoundary(s, p) THEN AmountHit(s, from, p, sign, numFrom, numTo, "")
  ELSE NoMatch

AmountTail(s, from, sign, numFrom, numTo, p) ==
  AmountTailAt(s, from, sign, numFrom, numTo, p, SkipSpace(s, p))

\* the first of two alternatives that matches
FirstMatch(a, b) == IF a.ok THEN a ELSE b

\* (?:\.\d+)? then the tail: d0..d1-1 are the digits, f1 the end of a fraction
\* (f1 = d1 when there is none); the fraction is tried first
AmountFraction(s, from, sign, d0, d1, f1) ==
  FirstMatch(IF f1 > d1 + 1 THEN AmountTail(s, from, sign, d0, f1, f1) ELSE NoMatch,
             AmountTail(s, from, sign, d0, d1, d1))

\* the end of ".ddd" at position d1, d1 itself when there is no fraction
FractionEnd(s, d1) ==
  IF d1 <= Len(s) /\ s[d1] = "." THEN SkipDigits(s, d1 + 1) ELSE d1

\* \d+ from d0, ending in front of d1
AmountDigits(s, from, sign, d0, d1) ==
  IF d1 = d0 THEN NoMatch
  ELSE AmountFraction(s, from, sign, d0, d1, FractionEnd(s, d1))

\* ([+-]?) at position i
SignAt(s, i) == IF i <= Len(s) /\ s[i] \in {"+", "-"} THEN s[i] ELSE ""

\* ([+-]?)\s* then the number
AmountSigned(s, i, sign, d0) == AmountDigits(s, i, sign, d0, SkipDigits(s, d0))

\* the match of _AMOUNT_RE that starts at position i, if there is one: \b
\* needs a word boundary in front of the sign
AmountMatchAt(s, i) ==
  IF ~WordBoundary(s, i) THEN NoMatch
  ELSE AmountSigned(s, i, SignAt(s, i),
                    SkipSpace(s, IF SignAt(s, i) # "" THEN i + 1 ELSE i))

RECURSIVE AmountSearchFrom(_, _)
\* re.search: the match at the leftmost position that has one
AmountSearchFrom(s, i) ==
  IF i > Len(s) THEN NoMatch
  ELSE FirstMatch(AmountMatchAt(s, i), AmountSearchFrom(s, i + 1))

AmountSearch(s) == AmountSearchFrom(s, 1)

\* the position of the decimal point of num, Len(num) + 1 when it has none
DotOf(num) ==
  CHOOSE k \in 1..(Len(num) + 1) :
    /\ k = Len(num) + 1 \/ num[k] = "."
    /\ \A j \in 1..(k - 1) : num[j] # "."

\* the value of the digits `whole` followed by the fraction digits `frac`,
\* times scale, truncated
Scaled(whole, frac, scale) ==
  (DigitsToInt(frac, DigitsToInt(whole, 0)) * scale) \div Pow10(Len(frac))

UnitScale(unit) == CASE unit = "K" -> 1000 [] unit = "M" -> 1000000 [] OTHER -> 1

\* int(float(num) * unit)
ScaledValue(num, unit) ==
  Scaled(SubSeq(num, 1, DotOf(num) - 1), SubSeq(num, DotOf(num) + 1, Len(num)),
         UnitScale(unit))

\* the result of _parse_amount_with_sign for the match m: abs(amt) and the
\* sign, "" for None
AmountOf(m) ==
  IF ~m.ok THEN [amt |-> 0, sign |-> ""]
  ELSE [amt |-> ScaledValue(m.num, m.unit), sign |-> m.sign]

\* _parse_amount_with_sign
ParseAmountWithSign(text) == AmountOf(AmountSearch(RemoveCommas(Upper(text))))

\* text without the match m, stripped
CutMatch(text, m) ==
  IF ~m.ok THEN Strip(text)
  ELSE Strip(SubSeq(text, 1, m.from - 1) \o SubSeq(text, m.to, Len(text)))

\* _strip_amount: the text without its first amount token, stripped
StripAmount(text) == CutMatch(text, AmountSearch(text))

(***************************************************************************)
(* Dates.  A date is a record [y, m, d]; the store holds its text.         *)
(***************************************************************************)
IsLeap(y) == (y % 4 = 0 /\ y % 100 # 0) \/ y % 400 = 0

DaysInMonth(y, m) ==
  IF m = 2 THEN (IF IsLeap(y) THEN 29 ELSE 28)
  ELSE IF m \in {4, 6, 9, 11} THEN 30 ELSE 31

\* datetime.date(y, m, d) exists
IsValidDate(y, m, d) ==
  /\ y >= 1 /\ y <= 9999
  /\ m >= 1 /\ m <= 12
  /\ d >= 1 /\ d <= DaysInMonth(y, m)

NoDate == [ok |-> FALSE]

\* datetime.date(y, m, d), or NoDate (ValueError)
DateOf(y, m, d) ==
  IF IsValidDate(y, m, d) THEN [ok |-> TRUE, y |-> y, m |-> m, d |-> d]
  ELSE NoDate

\* the calendar date of the digit strings
MakeDate(ys, ms, ds) ==
  DateOf(DigitsToInt(ys, 0), DigitsToInt(ms, 0), DigitsToInt(ds, 0))

AllDigits(s) == \A i \in 1..Len(s) : IsDigit(s[i])

\* datetime.strptime(s, "%Y%m%d") of an 8-digit string
StrptimeCompact(s) ==
  IF Len(s) = 8 /\ AllDigits(s)
    THEN MakeDate(SubSeq(s, 1, 4), SubSeq(s, 5, 6), SubSeq(s, 7, 8))
    ELSE NoDate

\* datetime.strptime(s, "%Y-%m-%d") of a stored date
StrptimeIso(s) ==
  IF /\ Len(s) = 10
     /\ s[5] = "-" /\ s[8] = "-"
     /\ AllDigits(SubSeq(s, 1, 4) \o SubSeq(s, 6, 7) \o SubSeq(s, 9, 10))
    THEN MakeDate(SubSeq(s, 1, 4), SubSeq(s, 6, 7), SubSeq(s, 9, 10))
    ELSE NoDate

DigitChar(n) ==
  CASE n = 0 -> "0" [] n = 1 -> "1" [] n = 2 -> "2" [] n = 3 -> "3"
    [] n = 4 -> "4" [] n = 5 -> "5" [] n = 6 -> "6" [] n = 7 -> "7"
    [] n = 8 -> "8" [] n = 9 -> "9"

RECURSIVE Padded(_, _)
\* n in decimal, zero-padded to w digits
Padded(n, w) ==
  IF w = 0 THEN <<>> ELSE Append(Padded(n \div 10, w - 1), DigitChar(n % 10))

RECURSIVE IntToText(_)
\* str(n), n >= 0
IntToText(n) ==
  IF n < 10 THEN <<DigitChar(n)>>
  ELSE Append(IntToText(n \div 10), DigitChar(n % 10))

\* d.strftime("%Y-%m-%d") and str(d), for the four-digit years of the model
IsoFormat(d) == Padded(d.y, 4) \o <<"-">> \o Padded(d.m, 2) \o <<"-">> \o Padded(d.d, 2)

\* datetime.today().date(): the process clock, fixed for the model
Today == [ok |-> TRUE, y |-> 2026, m |-> 1, d |-> 5]

(***************************************************************************)
(* parse_lines                                                             *)
(***************************************************************************)
ModeUnset == "unset"
Modes == {ModeUnset, "thu", "chi"}

\* _DATE_PREFIX_RE = ^(\d{8})\s+(.*)$ on a stripped line
HasDatePrefix(line) ==
  /\ Len(line) >= 9
  /\ AllDigits(SubSeq(line, 1, 8))
  /\ IsSpace(line[9])

\* SignedAmount with the default taken as income
SignedAmountDefaultThu(absAmt, sign, fallbackMode) ==
  IF sign = "+" THEN absAmt
  ELSE IF sign = "-" THEN -absAmt
  ELSE IF fallbackMode = "chi" THEN -absAmt
  ELSE absAmt

\* the final sign of an entry (bot.py 172-184)
SignedAmount(absAmt, sign, fallbackMode) ==
  IF sign = "+" THEN absAmt
  ELSE IF sign = "-" THEN -absAmt
  ELSE IF fallbackMode = "thu" THEN absAmt
  ELSE IF fallbackMode = "chi" THEN -absAmt
  ELSE -absAmt

\* the date of a line: the 8-digit prefix, today without one
LineDate(line) ==
  IF HasDatePrefix(line) THEN StrptimeCompact(SubSeq(line, 1, 8)) ELSE Today

\* the content of a line: what follows the date prefix, the line without one
LineContent(line) ==
  IF HasDatePrefix(line)
    THEN Strip(SubSeq(line, SkipSpace(line, 9), Len(line)))
    ELSE line

\* ParseEntry without the test "abs_amt == 0"
ParseEntryKeepZero(d, pa, category, fallbackMode) ==
  IF category = <<>> THEN [kind |-> "skip"]
  ELSE [kind |-> "entry", date |-> d,
        amount |-> SignedAmount(pa.amt, pa.sign, fallbackMode),
        category |-> category]

\* bot.py 164-186: "skip" (continue) or the entry
ParseEntry(d, pa, category, fallbackMode) ==
  IF pa.amt = 0 THEN [kind |-> "skip"]
  ELSE IF category = <<>> THEN [kind |-> "skip"]
  ELSE [kind |-> "entry", date |-> d,
        amount |-> SignedAmount(pa.amt, pa.sign, fallbackMode),
        category |-> category]

\* bot.py 156-186 for the date d and the content: "raise" when strptime
\* raised ValueError
ParseContent(d, content, fallbackMode) ==
  IF ~d.ok THEN [kind |-> "raise"]
  ELSE ParseEntry(d, ParseAmountWithSign(content), StripAmount(content),
                  fallbackMode)

\* one round of the loop of parse_lines, on a stripped non-empty line
ParseLine(line, fallbackMode) ==
  ParseContent(LineDate(line), LineContent(line), fallbackMode)

\* the lines parse_lines loops over: stripped, empty ones left out
CleanLines(text) ==
  SelectSeq([i \in 1..Len(text) |-> Strip(text[i])], LAMBDA ln : ln # <<>>)

\* results.append((d, amount, category))
WithEntry(results, r) ==
  IF r.kind = "entry"
    THEN Append(results, [date |-> r.date, amount |-> r.amount,
                          category |-> r.category])
    ELSE results

RECURSIVE ParseLoop(_, _, _)
\* the loop of parse_lines; r is the outcome of the first line
ParseLoopStep(lines, fallbackMode, results, r) ==
  IF r.kind = "raise" THEN [raised |-> TRUE, entries |-> <<>>]
  ELSE ParseLoop(Tail(lines), fallbackMode, WithEntry(results, r))

ParseLoop(lines, fallbackMode, results) ==
  IF lines = <<>> THEN [raised |-> FALSE, entries |-> results]
  ELSE ParseLoopStep(lines, fallbackMode, results,
                     ParseLine(Head(lines), fallbackMode))

\* parse_lines(text, fallback_mode): the entries, or raised (ValueError)
ParseLines(text, fallbackMode) == ParseLoop(CleanLines(text), fallbackMode, <<>>)

(***************************************************************************)
(* The row store (google_sheet_store.py): an append-only sequence of rows   *)
(***************************************************************************)
UnknownUser == <<"u", "n", "k", "n", "o", "w", "n">>

\* append_expense: the sheet with one more row
AppendExpense(sheet, expenseDate, user, amount, category) ==
  Append(sheet, [date     |-> IsoFormat(expenseDate),
                 user     |-> IF user = <<>> THEN UnknownUser ELSE user,
                 amount   |-> amount,
                 category |-> category])

\* get_all_rows: the rows whose amount is an integer, in sheet order
GetAllRows(sheet) == SelectSeq(sheet, LAMBDA r : r.amount \in Int)

(***************************************************************************)
(* Users                                                                   *)
(***************************************************************************)
\* OWNER_USERNAME (the default of the environment variable)
OWNER_USERNAME == <<"l", "t", "k", "n", "g", "a", "n", "1", "9", "8">>

Owner == [username |-> OWNER_USERNAME, id |-> 1001]
\* a user without a Telegram username, known by the numeric id
Guest == [username |-> <<>>, id |-> 1002]
Users == {Owner, Guest}
UserIds == {u.id : u \in Users}

\* _safe_username: u.username or str(u.id)
SafeUsername(u) == IF u.username # <<>> THEN u.username ELSE IntToText(u.id)

(***************************************************************************)
(* Totals of the reports                                                   *)
(***************************************************************************)
Abs(n) == IF n < 0 THEN -n ELSE n

RECURSIVE Totals(_, _, _)
\* the loop "if amt > 0: thu += amt else: chi += abs(amt)" over rows
Totals(rows, thu, chi) ==
  IF rows = <<>> THEN [thu |-> thu, chi |-> chi]
  ELSE LET amt == Head(rows).amount
       IN  IF amt > 0 THEN Totals(Tail(rows), thu + amt, chi)
           ELSE Totals(Tail(rows), thu, chi + Abs(amt))

\* the rows summary_day adds up
DayRows(rows, target) == SelectSeq(rows, LAMBDA r : r.date = IsoFormat(target))

\* the reply of summary_day with the totals t
DayReport(target, t) ==
  [kind |-> "day_report", date |-> IsoFormat(target),
   thu |-> t.thu, chi |-> t.chi, con |-> t.thu - t.chi]

\* summary_day for the target date, NoDate when strptime raised
SummaryDayOf(sheet, target) ==
  IF ~target.ok THEN [kind |-> "bad_day_format"]
  ELSE DayReport(target, Totals(DayRows(GetAllRows(sheet), target), 0, 0))

\* summary_day(yyyymmdd): yyyymmdd is <<>> for None
SummaryDay(sheet, yyyymmdd) ==
  SummaryDayOf(sheet, IF yyyymmdd # <<>> THEN StrptimeCompact(yyyymmdd) ELSE Today)

\* is the stored date text of year y and month m
InMonth(dateText, y, m) ==
  StrptimeIso(dateText).ok /\ StrptimeIso(dateText).y = y
    /\ StrptimeIso(dateText).m = m

\* the rows summary_month adds up
MonthRows(rows, year, month) ==
  SelectSeq(rows, LAMBDA r : InMonth(r.date, year, month))

\* the reply of summary_month with the totals t
MonthReport(y, m, t) ==
  [kind |-> "month_report", year |-> y, month |-> m,
   thu |-> t.thu, chi |-> t.chi, con |-> t.thu - t.chi]

\* summary_month for the year y and the month m
SummaryMonthOf(sheet, y, m) ==
  IF m < 1 \/ m > 12 THEN [kind |-> "bad_month"]
  ELSE MonthReport(y, m, Totals(MonthRows(GetAllRows(sheet), y, m), 0, 0))

\* summary_month(yyyymm): yyyymm is <<>> for None
SummaryMonth(sheet, yyyymm) ==
  IF yyyymm = <<>> THEN SummaryMonthOf(sheet, Today.y, Today.m)
  ELSE IF ~(Len(yyyymm) = 6 /\ AllDigits(yyyymm))
    THEN [kind |-> "bad_month_format"]
  ELSE SummaryMonthOf(sheet, DigitsToInt(SubSeq(yyyymm, 1, 4), 0),
                      DigitsToInt(SubSeq(yyyymm, 5, 6), 0))

(***************************************************************************)
(* /year YYYY [@user]                                                      *)
(***************************************************************************)
\* int(args[0]) of a command argument
ParseIntArg(s) ==
  IF s # <<>> /\ AllDigits(s) THEN [ok |-> TRUE, val |-> DigitsToInt(s, 0)]
  ELSE [ok |-> FALSE]

\* args[1].replace("@", "").strip() or requester
NamedUser(arg, requester) ==
  IF Strip(SelectSeq(arg, LAMBDA c : c # "@")) # <<>>
    THEN Strip(SelectSeq(arg, LAMBDA c : c # "@"))
    ELSE requester

\* TargetUser without the test of the owner
TargetUserAnyone(args, requester) ==
  IF Len(args) > 1 THEN NamedUser(args[2], requester) ELSE requester

\* the target user of the report (bot.py 291-293)
TargetUser(args, requester) ==
  IF Len(args) > 1 /\ requester = OWNER_USERNAME
    THEN NamedUser(args[2], requester)
    ELSE requester

\* is the stored date text of year y
InYear(dateText, y) == StrptimeIso(dateText).ok /\ StrptimeIso(dateText).y = y

\* the rows summary_year buckets by month
YearRows(rows, targetUser, year) ==
  SelectSeq(rows, LAMBDA r : r.user = targetUser /\ InYear(r.date, year))

MonthOf(r) == StrptimeIso(r.date).m

\* the keys with the key m, added behind when it is new
WithKey(keys, m) ==
  IF \E i \in 1..Len(keys) : keys[i] = m THEN keys ELSE Append(keys, m)

RECURSIVE KeyOrder(_, _)
\* the keys of the dict `monthly` after the loop over rows, in insertion order
KeyOrder(rows, keys) ==
  IF rows = <<>> THEN keys
  ELSE KeyOrder(Tail(rows), WithKey(keys, MonthOf(Head(rows))))

\* monthly[m]: the totals of month m
Monthly(rows, m) == Totals(SelectSeq(rows, LAMBDA r : MonthOf(r) = m), 0, 0)

RECURSIVE TouchMonths(_, _)
\* the keys after "for m in range(1, 13): monthly[m]": reading the defaultdict
\* inserts each missing month, in ascending order, behind the existing keys
TouchMonths(keys, m) ==
  IF m > 12 THEN keys ELSE TouchMonths(WithKey(keys, m), m + 1)

HasData(t) == t.thu # 0 \/ t.chi # 0

\* months_with_data (bot.py 330)
MonthsWithData(rows) ==
  SelectSeq(TouchMonths(KeyOrder(rows, <<>>), 1),
            LAMBDA m : HasData(Monthly(rows, m)))

\* max(keys, key = ...): the first element whose key is the largest; vals[i]
\* is the key of keys[i]
FirstMax(keys, vals) ==
  keys[CHOOSE i \in 1..Len(keys) :
         /\ \A j \in 1..Len(keys) : vals[j] <= vals[i]
         /\ \A j \in 1..(i - 1) : vals[j] < vals[i]]

\* worst = max(months_with_data, key = chi)
WorstMonth(rows, months) ==
  FirstMax(months, [i \in 1..Len(months) |-> Monthly(rows, months[i]).chi])

Balance(t) == t.thu - t.chi

\* best = max(months_with_data, key = thu - chi)
BestMonth(rows, months) ==
  FirstMax(months, [i \in 1..Len(months) |-> Balance(Monthly(rows, months[i]))])

MonthLine(m, t) == [month |-> m, thu |-> t.thu, chi |-> t.chi]

\* the per-month lines of the report: months 1..12 that have a total
MonthLines(rows) ==
  SelectSeq([m \in 1..12 |-> MonthLine(m, Monthly(rows, m))],
            LAMBDA l : ~(l.thu = 0 /\ l.chi = 0))

\* the report of summary_year (bot.py 318-349)
YearReport(year, target, rows, months, t) ==
  IF months = <<>> THEN [kind |-> "crash"]
  ELSE [kind |-> "year_report", year |-> year, target |-> target,
        thu |-> t.thu, chi |-> t.chi, con |-> t.thu - t.chi,
        lines |-> MonthLines(rows),
        worst |-> WorstMonth(rows, months),
        best |-> BestMonth(rows, months),
        surplus |-> t.thu >= t.chi]

\* YearAnswer without the test "if not monthly"
YearAnswerUnchecked(year, target, rows) ==
  YearReport(year, target, rows, MonthsWithData(rows), Totals(rows, 0, 0))

\* bot.py 295-349 for the rows of the target user and the year
YearAnswer(year, target, rows) ==
  IF rows = <<>>
    THEN [kind |-> "year_nodata", year |-> year, target |-> target]
    ELSE YearReport(year, target, rows, MonthsWithData(rows), Totals(rows, 0, 0))

\* bot.py 286-349 for the year yr and the target user
YearOf(sheet, yr, target) ==
  IF ~yr.ok THEN [kind |-> "bad_year"]
  ELSE YearAnswer(yr.val, target, YearRows(GetAllRows(sheet), target, yr.val))

\* summary_year: the reply
SummaryYear(sheet, requester, args) ==
  IF args = <<>> THEN [kind |-> "year_usage"]
  ELSE YearOf(sheet, ParseIntArg(args[1]), TargetUser(args, requester))

(***************************************************************************)
(* handle_text                                                             *)
(*                                                                         *)
(* A message text is the sequence of its lines.  The labels of the menu    *)
(* buttons are opaque one-token lines: they are compared whole and never   *)
(* reach the parser.                                                       *)
(***************************************************************************)
BtnGhiThu       == << <<"[+] Ghi thu">> >>
BtnGhiChi       == << <<"[-] Ghi chi">> >>
BtnTongKetNgay  == << <<"[d] Tong ket ngay">> >>
BtnTongKetThang == << <<"[m] Tong ket thang">> >>
BtnTongKetNam   == << <<"[y] Tong ket nam">> >>
BtnHelp         == << <<"[i] Help">> >>

\* does the line t read: the word w, spaces, n digits
QuickFits(t, w, n) ==
  /\ Len(t) > Len(w) + n
  /\ Upper(SubSeq(t, 1, Len(w))) = w
  /\ IsSpace(t[Len(w) + 1])
  /\ SkipSpace(t, Len(w) + 1) = Len(t) - n + 1
  /\ AllDigits(SubSeq(t, Len(t) - n + 1, Len(t)))

\* re.fullmatch(r"(?i)(word)\s+(\d{n})", text) for a word of `words`:
\* the digits, or <<>> when the text does not match
QuickArg(text, words, n) ==
  IF Len(text) = 1 /\ \E w \in words : QuickFits(text[1], w, n)
    THEN SubSeq(text[1], Len(text[1]) - n + 1, Len(text[1]))
    ELSE <<>>

DayWords   == {<<"D", "A", "Y">>, <<"N", "G", "A", "Y">>}
MonthWords == {<<"M", "O", "N", "T", "H">>, <<"T", "H", "A", "N", "G">>}

\* the row append_expense writes for the entry e
RowOf(e, username) ==
  AppendExpense(<<>>, e.date, username, e.amount, e.category)[1]

\* append_expense raised: errors += 1
Failed(acc, row) ==
  [acc EXCEPT !.errors = @ + 1, !.calls = Append(@, [row |-> row, ok |-> FALSE])]

\* append_expense returned: ok += 1
Appended(acc, e, username, row) ==
  [acc EXCEPT !.ok = @ + 1,
              !.store = AppendExpense(@, e.date, username, e.amount, e.category),
              !.calls = Append(@, [row |-> row, ok |-> TRUE])]

RECURSIVE AppendLoopStop(_, _, _, _, _)
\* AppendLoop leaving the loop at the first call that raises
AppendLoopStop(entries, username, fails, k, acc) ==
  IF entries = <<>> THEN acc
  ELSE IF k \in fails THEN Failed(acc, RowOf(Head(entries), username))
  ELSE AppendLoopStop(Tail(entries), username, fails, k + 1,
                      Appended(acc, Head(entries), username,
                               RowOf(Head(entries), username)))

RECURSIVE AppendLoop(_, _, _, _, _)
\* the loop over entries (bot.py 415-426): call k of the batch raises when k
\* is in `fails`; the loop goes on to the next entry either way
AppendLoop(entries, username, fails, k, acc) ==
  IF entries = <<>> THEN acc
  ELSE AppendLoop(Tail(entries), username, fails, k + 1,
         IF k \in fails
           THEN Failed(acc, RowOf(Head(entries), username))
           ELSE Appended(acc, Head(entries), username,
                         RowOf(Head(entries), username)))

\* the reply after the loop (bot.py 428-440)
WriteReply(r, username) ==
  IF r.errors = 0
    THEN [kind |-> "written", ok |-> r.ok, username |-> username]
    ELSE [kind |-> "partial", ok |-> r.ok, errors |-> r.errors]

\* Written with the mode cleared after a row was appended
WrittenOneShot(r, userMode, username) ==
  [store |-> r.store, mode |-> IF r.ok > 0 THEN ModeUnset ELSE userMode,
   calls |-> r.calls, reply |-> WriteReply(r, username)]

\* the outcome of handle_text after the loop; the mode is left as it is
Written(r, userMode, username) ==
  [store |-> r.store, mode |-> userMode, calls |-> r.calls,
   reply |-> WriteReply(r, username)]

\* an outcome that changes nothing
Same(sheet, userMode, reply) ==
  [store |-> sheet, mode |-> userMode, calls |-> <<>>, reply |-> reply]

\* bot.py 399-440 for the result of parse_lines
MainInputOf(sheet, userMode, username, fails, parsed) ==
  IF parsed.raised THEN Same(sheet, userMode, [kind |-> "crash"])
  ELSE IF parsed.entries = <<>>
    THEN Same(sheet, userMode, [kind |-> "format_error"])
  ELSE Written(AppendLoop(parsed.entries, username, fails, 1,
                          [store |-> sheet, ok |-> 0, errors |-> 0,
                           calls |-> <<>>]),
               userMode, username)

\* the main input of handle_text (bot.py 395-440): parse and append
MainInput(sheet, userMode, username, text, fails) ==
  MainInputOf(sheet, userMode, username, fails, ParseLines(text, userMode))

\* the menu button that selects a mode (bot.py 360-370)
SelectMode(sheet, m) ==
  [store |-> sheet, mode |-> m, calls |-> <<>>,
   reply |-> [kind |-> "mode_prompt", mode |-> m]]

\* handle_text: the new store and mode of the user, the append calls made
\* and the reply
HandleTextResult(sheet, userMode, u, text, fails) ==
  IF CleanLines(text) = <<>> THEN Same(sheet, userMode, [kind |-> "none"])
  ELSE IF text \in {BtnGhiThu, BtnGhiChi}
    THEN SelectMode(sheet, IF text = BtnGhiThu THEN "thu" ELSE "chi")
  ELSE IF text \in {BtnTongKetNgay, BtnTongKetThang, BtnTongKetNam}
    THEN Same(sheet, userMode,
              IF text = BtnTongKetNam THEN [kind |-> "year_hint"]
              ELSE IF text = BtnTongKetThang THEN SummaryMonth(sheet, <<>>)
              ELSE SummaryDay(sheet, <<>>))
  ELSE IF text = BtnHelp THEN Same(sheet, userMode, [kind |-> "help"])
  ELSE IF QuickArg(text, DayWords, 8) # <<>>
    THEN Same(sheet, userMode, SummaryDay(sheet, QuickArg(text, DayWords, 8)))
  ELSE IF QuickArg(text, MonthWords, 6) # <<>>
    THEN Same(sheet, userMode, SummaryMonth(sheet, QuickArg(text, MonthWords, 6)))
  ELSE MainInput(sheet, userMode, SafeUsername(u), text, fails)

(***************************************************************************)
(* Inputs of the model                                                     *)
(***************************************************************************)
\* the largest number of rows the sheet holds in the model
MaxRows == 2

LineCf        == <<"2", "0", "K", " ", "C", "F">>
LinePlusLuong == <<"+", "1", "M", " ", "L", "U", "O", "N", "G">>
LineBonus     == <<"X", "+", "5", "K">>
LineZero      == <<"0", " ", "X">>
LineNoCat     == <<"2", "0", "K">>
LineMarch     == <<"2", "0", "2", "6", "0", "3", "0", "1", " ",
                   "2", "0", "K", " ", "C", "F">>
LineBadDate   == <<"2", "0", "2", "6", "1", "3", "0", "1", " ",
                   "2", "0", "K", " ", "C", "F">>

SampleLines ==
  {LineCf, LinePlusLuong, LineBonus, LineZero, LineNoCat, LineMarch, LineBadDate}

\* the transaction messages of at most n lines
Batches(n) == UNION {[1..k -> SampleLines] : k \in 1..n}

MenuTexts ==
  {BtnGhiThu, BtnGhiChi, BtnTongKetNgay, BtnTongKetThang, BtnTongKetNam, BtnHelp}

QuickTexts ==
  { << <<"d", "a", "y", " ", "2", "0", "2", "6", "0", "3", "0", "1">> >>,
    << <<"d", "a", "y", " ", "2", "0", "2", "6", "0", "2", "3", "0">> >>,
    << <<"m", "o", "n", "t", "h", " ", "2", "0", "2", "6", "0", "3">> >>,
    << <<"m", "o", "n", "t", "h", " ", "2", "0", "2", "6", "1", "3">> >> }

Year2026 == <<"2", "0", "2", "6">>
Year2025 == <<"2", "0", "2", "5">>

YearArgs ==
  { <<>>, << <<"x">> >>, <<Year2026>>, <<Year2025>>,
    <<Year2026, <<"@">> \o OWNER_USERNAME>>,
    <<Year2026, <<"@">> \o SafeUsername(Guest)>>,
    <<Year2025, <<"@">> \o OWNER_USERNAME>>,
    <<Year2026, <<"@">> >> }

(***************************************************************************)
(* The state machine: one update is handled at a time                      *)
(***************************************************************************)
VARIABLES
  store,    \* the rows of the sheet
  mode,     \* context.user_data["mode"] of each user
  update,   \* the update being answered, NoUpdate between updates
  before,   \* store and mode when the update arrived
  calls,    \* the append_expense calls made for the update, with their outcome
  reply     \* the reply sent for the update

vars == <<store, mode, update, before, calls, reply>>

NoUpdate == [handler |-> "none"]
NoReply  == [kind |-> "none"]

Init ==
  /\ store = <<>>
  /\ mode = [i \in UserIds |-> ModeUnset]
  /\ update = NoUpdate
  /\ before = [store |-> <<>>, mode |-> [i \in UserIds |-> ModeUnset]]
  /\ calls = <<>>
  /\ reply = NoReply

\* the handler of the update upd of user u ends with the outcome r
Answer(upd, u, r) ==
  /\ update = NoUpdate
  /\ update' = upd
  /\ before' = [store |-> store, mode |-> mode]
  /\ store' = r.store
  /\ mode' = [mode EXCEPT ![u.id] = r.mode]
  /\ calls' = r.calls
  /\ reply' = r.reply

\* /start: context.user_data.clear()
Start(u) ==
  Answer([handler |-> "start", user |-> u], u,
         Same(store, ModeUnset, [kind |-> "start"]))

\* /help
HelpCmd(u) ==
  Answer([handler |-> "help", user |-> u], u,
         Same(store, mode[u.id], [kind |-> "help"]))

\* /year with the arguments args
YearCmd(u, args) ==
  Answer([handler |-> "year", user |-> u, args |-> args], u,
         Same(store, mode[u.id], SummaryYear(store, SafeUsername(u), args)))

\* handle_text ends with the outcome r; the sheet has room for its rows and
\* `fails` numbers calls that were made
TextAnswer(u, text, fails, r) ==
  /\ update = NoUpdate
  /\ Len(r.store) <= MaxRows
  /\ fails \subseteq 1..Len(r.calls)
  /\ Answer([handler |-> "text", user |-> u, text |-> text, fails |-> fails],
            u, r)

\* a text message that is no command; the append calls numbered in `fails`
\* raise (the sheet is unreachable, quota, ...)
HandleText(u, text, fails) ==
  TextAnswer(u, text, fails,
             HandleTextResult(store, mode[u.id], u, text, fails))

\* telegram_webhook returns: the next update can be handled
WebhookReturn ==
  /\ update # NoUpdate
  /\ update' = NoUpdate
  /\ before' = [store |-> store, mode |-> mode]
  /\ calls' = <<>>
  /\ reply' = NoReply
  /\ UNCHANGED <<store, mode>>

\* every handler, every input of the model
Next ==
  \/ \E u \in Users : Start(u)
  \/ \E u \in Users : HelpCmd(u)
  \/ \E u \in Users, args \in YearArgs : YearCmd(u, args)
  \/ \E u \in Users, text \in MenuTexts \cup QuickTexts : HandleText(u, text, {})
  \/ /\ update = NoUpdate
     /\ \E u \in Users, text \in Batches(MaxRows - Len(store)) :
          \E fails \in SUBSET (1..Len(text)) : HandleText(u, text, fails)
  \/ WebhookReturn

Spec == Init /\ [][Next]_vars

\* the ledger: /start, the mode buttons and transaction messages
NextLedger ==
  \/ \E u \in Users : Start(u)
  \/ \E u \in Users, text \in {BtnGhiThu, BtnGhiChi} : HandleText(u, text, {})
  \/ /\ update = NoUpdate
     /\ \E u \in Users, text \in Batches(MaxRows - Len(store)) :
          \E fails \in SUBSET (1..Len(text)) : HandleText(u, text, fails)
  \/ WebhookReturn

SpecLedger == Init /\ [][NextLedger]_vars

\* the reports, over sheets written through the mode buttons and one-line
\* transaction messages that the store accepts
ReportLines == {LineCf, LineMarch}

NextReports ==
  \/ \E u \in Users, args \in YearArgs : YearCmd(u, args)
  \/ \E u \in Users,
        text \in {BtnGhiThu, BtnGhiChi, BtnTongKetNgay, BtnTongKetThang}
                   \cup QuickTexts :
       HandleText(u, text, {})
  \/ \E u \in Users, line \in ReportLines : HandleText(u, <<line>>, {})
  \/ WebhookReturn

SpecReports == Init /\ [][NextReports]_vars

(***************************************************************************)
(* Properties.  They are stated on the state in which an update has just   *)
(* been answered: `update` is the request, `before` the store and the      *)
(* modes it found, `calls` and `reply` what the handler did.               *)
(***************************************************************************)
Requester == SafeUsername(update.user)

\* the update was a transaction message: handle_text reached parse_lines
MainInputHandled ==
  /\ update.handler = "text"
  /\ reply.kind \in {"written", "partial", "format_error", "crash"}

\* the line starts with eight digits that name no calendar date
InvalidDateLine(line) ==
  HasDatePrefix(line) /\ ~StrptimeCompact(SubSeq(line, 1, 8)).ok

\* the line is a transaction: an amount that is not 0 and a category
IsTransaction(line) ==
  /\ ~InvalidDateLine(line)
  /\ ParseAmountWithSign(LineContent(line)).amt # 0
  /\ StripAmount(LineContent(line)) # <<>>

\* the transactions of a message, in order
TransactionLines(text) == SelectSeq(CleanLines(text), IsTransaction)

NoInvalidDate(text) ==
  \A i \in 1..Len(CleanLines(text)) : ~InvalidDateLine(CleanLines(text)[i])

\* the line holds no "+" and no "-" at all
NoSignChar(line) == \A i \in 1..Len(line) : line[i] \notin {"+", "-"}

\* the sign written in front of the first number of the line's content, at
\* the start of the content or after a space; "" when there is none
WrittenSign(line) ==
  LET c == LineContent(line)
      first == CHOOSE i \in 1..(Len(c) + 1) :
                 /\ i = Len(c) + 1 \/ IsDigit(c[i])
                 /\ \A j \in 1..(i - 1) : ~IsDigit(c[j])
  IN  IF /\ first >= 2 /\ first <= Len(c)
         /\ c[first - 1] \in {"+", "-"}
         /\ (first = 2 \/ IsSpace(c[first - 2]))
        THEN c[first - 1] ELSE ""

OkRows == LET ok == SelectSeq(calls, LAMBDA c : c.ok)
          IN  [i \in 1..Len(ok) |-> ok[i].row]

FailedCalls == SelectSeq(calls, LAMBDA c : ~c.ok)

\* a transaction message with an unsigned transaction arrived while the
\* mode of its user was unset
UnsignedWhileUnset ==
  /\ MainInputHandled
  /\ before.mode[update.user.id] = ModeUnset
  /\ NoInvalidDate(update.text)
  /\ \E i \in 1..Len(TransactionLines(update.text)) :
       NoSignChar(TransactionLines(update.text)[i])

\* C1 as claimed: a batch with an unsigned line is rejected with "mode
\* required" while the mode is unset, and nothing is appended.
C1_ModeRequired ==
  UnsignedWhileUnset =>
    /\ reply.kind = "mode_required"
    /\ calls = <<>>
    /\ store = before.store

\* C1 amended: a batch with an unsigned line is not rejected while the mode
\* is unset: an append is made for every transaction of the batch, in order,
\* and every transaction without a sign is appended as an expense (negative).
C1_DefaultExpense ==
  UnsignedWhileUnset =>
    /\ reply.kind \in {"written", "partial"}
    /\ Len(calls) = Len(TransactionLines(update.text))
    /\ \A k \in 1..Len(calls) :
         NoSignChar(TransactionLines(update.text)[k]) => calls[k].row.amount < 0
    /\ store = before.store \o OkRows

C1_Witness ==
  /\ UnsignedWhileUnset
  /\ update.text = <<LineCf, LineBonus>>
  /\ Len(store) = Len(before.store) + 2
  /\ store[Len(store) - 1].amount = -20000
  /\ store[Len(store)].amount = 5000

\* C2 as claimed: whatever the mode, a transaction written with a leading
\* "+" is appended with a positive amount and one written with a leading "-"
\* with a negative amount.
C2_ExplicitSignWins ==
  (MainInputHandled /\ NoInvalidDate(update.text)) =>
    \A k \in 1..Len(calls) :
      /\ WrittenSign(TransactionLines(update.text)[k]) = "+"
           => calls[k].row.amount > 0
      /\ WrittenSign(TransactionLines(update.text)[k]) = "-"
           => calls[k].row.amount < 0

WellFormedRow(r) == r.amount # 0 /\ r.category # <<>> /\ r.user # <<>>

\* C3: every row of the store, and every row an append was attempted for,
\* has an amount that is not 0, a category and a user that are not empty.
C3_RowsWellFormed ==
  /\ \A i \in 1..Len(store) : WellFormedRow(store[i])
  /\ \A k \in 1..Len(calls) : WellFormedRow(calls[k].row)

C3_Witness ==
  /\ MainInputHandled
  /\ \E i \in 1..Len(update.text) : update.text[i] \in {LineZero, LineNoCat}
  /\ Len(calls) = 1
  /\ Len(store) = Len(before.store) + 1
  /\ update.user = Guest

\* the batch appended at least one row
BatchWritten ==
  /\ MainInputHandled
  /\ reply.kind \in {"written", "partial"}
  /\ reply.ok >= 1

\* C4 as claimed: after a batch that appended a row, the mode of its user is
\* unset.
C4_OneShot == BatchWritten => mode[update.user.id] = ModeUnset

\* C4 amended: a batch that appended a row leaves every mode as it was: the
\* mode of its user stays selected for the next batch.
C4_ModeKept == BatchWritten => mode = before.mode

C4_Witness ==
  /\ BatchWritten
  /\ before.mode[update.user.id] = "thu"
  /\ mode[update.user.id] = "thu"
  /\ store[Len(store)].amount > 0

\* C5 as claimed: after the append of one line fails no append is attempted
\* for a later line, and the reply counts the rows appended before it.
C5_StopAtFailure ==
  MainInputHandled =>
    \A i \in 1..Len(calls) :
      ~calls[i].ok =>
        /\ Len(calls) = i
        /\ reply.ok = i - 1

\* C5 amended: a failed append does not stop the batch: an append is
\* attempted for every transaction of the batch, the rows appended before and
\* after the failure are in the store, behind the rows it held, and the reply
\* counts the rows appended and the calls that failed.
C5_ContinueAfterFailure ==
  (MainInputHandled /\ FailedCalls # <<>>) =>
    /\ Len(calls) = Len(TransactionLines(update.text))
    /\ store = before.store \o OkRows
    /\ reply.kind = "partial"
    /\ reply.ok = Len(OkRows)
    /\ reply.errors = Len(FailedCalls)

C5_Witness ==
  /\ MainInputHandled
  /\ Len(calls) = 2
  /\ ~calls[1].ok
  /\ calls[2].ok
  /\ store = Append(before.store, calls[2].row)
  /\ reply.ok = 1

\* C6 as claimed: a line whose date prefix is no calendar date fails alone:
\* an append is still made for every transaction of the batch.
C6_PerLineIndependence ==
  (MainInputHandled /\ ~NoInvalidDate(update.text)) =>
    /\ reply.kind # "crash"
    /\ Len(calls) = Len(TransactionLines(update.text))

\* a /year of a user who is not the owner, naming another user
ForeignYearRequest ==
  /\ update.handler = "year"
  /\ Requester # OWNER_USERNAME
  /\ Len(update.args) > 1
  /\ ParseIntArg(update.args[1]).ok
  /\ NamedUser(update.args[2], Requester) # Requester

\* C7 as claimed: such a request is answered with a permission error.
C7_PermissionDenied == ForeignYearRequest => reply.kind = "permission_denied"

\* C7 amended: such a request is answered with the report (or "no data") of
\* the requester: the second argument is ignored; and only the owner gets a
\* report whose target is not the requester.
C7_OwnDataOnly ==
  /\ ForeignYearRequest =>
       /\ reply.kind \in {"year_report", "year_nodata"}
       /\ reply.target = Requester
  /\ (update.handler = "year" /\ reply.kind \in {"year_report", "year_nodata"}
        /\ reply.target # Requester) => Requester = OWNER_USERNAME

C7_Witness ==
  /\ ForeignYearRequest
  /\ reply.kind = "year_report"
  /\ reply.target = SafeUsername(Guest)
  /\ \E i \in 1..Len(store) : store[i].user = OWNER_USERNAME

\* the sheet without the rows of users other than `user`
RowsOf(sheet, user) == SelectSeq(sheet, LAMBDA r : r.user = user)

\* C8 as claimed: a day, month or year report is the report of the sheet
\* without the rows of the other users.
C8_ReportsScoped ==
  /\ (update.handler = "text" /\ reply.kind \in {"day_report", "month_report"})
       => reply = HandleTextResult(RowsOf(store, Requester), ModeUnset,
                                   update.user, update.text, {}).reply
  /\ (update.handler = "year" /\ reply.kind \in {"year_report", "year_nodata"})
       => reply = SummaryYear(RowsOf(store, reply.target), Requester,
                              update.args)

\* the lowest month among the months whose value is the largest; vals[i] is
\* the value of the month of lines[i]
LowestMax(lines, vals) ==
  CHOOSE m \in 1..12 :
    \E i \in 1..Len(lines) :
      /\ lines[i].month = m
      /\ \A j \in 1..Len(lines) : vals[j] <= vals[i]
      /\ \A j \in 1..Len(lines) : vals[j] = vals[i] => lines[j].month >= m

\* C9 as claimed: worst_month is the lowest month with the largest expense
\* and best_month the lowest month with the largest balance, in whatever
\* order the rows were appended.
C9_LowestMonthOnTie ==
  reply.kind = "year_report" =>
    /\ reply.worst =
         LowestMax(reply.lines, [i \in 1..Len(reply.lines) |-> reply.lines[i].chi])
    /\ reply.best =
         LowestMax(reply.lines,
                   [i \in 1..Len(reply.lines) |->
                      reply.lines[i].thu - reply.lines[i].chi])

\* no row of the sheet is dated dateText
NoRowOn(dateText) == \A i \in 1..Len(store) : store[i].date # dateText

\* no row of the sheet is of month m of year y
NoRowInMonth(y, m) == \A i \in 1..Len(store) : ~InMonth(store[i].date, y, m)

\* no row of the sheet is of the user and of year y
NoRowInYear(user, y) ==
  \A i \in 1..Len(store) : ~(store[i].user = user /\ InYear(store[i].date, y))

\* C10 as claimed: a report over a scope that holds no row is a "no data"
\* answer, never a report of totals.
C10_NoDataOutcome ==
  /\ reply.kind = "day_report" => ~NoRowOn(reply.date)
  /\ reply.kind = "month_report" => ~NoRowInMonth(reply.year, reply.month)
  /\ reply.kind = "year_report" => ~NoRowInYear(reply.target, reply.year)

ZeroTotals == reply.thu = 0 /\ reply.chi = 0 /\ reply.con = 0

\* C10 amended: the year report answers "no data" exactly when no row of the
\* target user is of the year; the day and the month report have no such
\* answer: over a scope that holds no row they report totals of 0.
C10_EmptyScope ==
  /\ reply.kind \in {"year_report", "year_nodata"} =>
       (reply.kind = "year_nodata" <=> NoRowInYear(reply.target, reply.year))
  /\ (update.handler = "year" /\ update.args # <<>>
        /\ ParseIntArg(update.args[1]).ok)
       => reply.kind \in {"year_report", "year_nodata"}
  /\ (reply.kind = "day_report" /\ NoRowOn(reply.date)) => ZeroTotals
  /\ (reply.kind = "month_report" /\ NoRowInMonth(reply.year, reply.month))
       => ZeroTotals

C10_Witness ==
  /\ reply.kind = "year_nodata"
  /\ reply.year = 2025
  /\ \E i \in 1..Len(store) : store[i].user = reply.target
====
